---- MODULE Spec2Model ----
(***************************************************************************)
(* A model of the mini-wal write-ahead log engine.                         *)
(*                                                                         *)
(* The engine modelled is the newest revision of internal/wal.go (the Go   *)
(* text carried at src/README.md:349-577: writeEntry, readAllEntries,      *)
(* Close), together with internal/segments.go, internal/types.go and the   *)
(* configuration defaults.  A segment file is a sequence of cells (one     *)
(* cell per byte, a protobuf varint counted as one cell); the engine's     *)
(* bufio.Writer, the os.File it wraps, the cancellable context and the     *)
(* background goroutine are state.                                         *)
(***************************************************************************)
EXTENDS Integers, Sequences, FiniteSets, TLC

\* ------------------------------------------------------------------ bounds
MaxSeqNo == 3          \* write calls that reach the write path, per behaviour
MaxOpens == 2          \* calls of Open per behaviour
MaxEvents == 1         \* device faults, crashes and file tamperings per behaviour
BufSize == 24          \* capacity of the bufio.Writer, in cells

\* ------------------------------------------------------- program constants
PrefixLen == 4         \* binary.Write of a uint32: four length-prefix bytes

\* ------------------------------------------------------------------ inputs
Payloads == {<<1>>, <<2, 1>>}

\* File names are sequences of character codes ("-" is 45, "/" is 47).
segmentPrefix == <<115, 101, 103, 109, 101, 110, 116, 45>>     \* "segment-"

DefaultLogDir == <<46, 47, 119, 97, 108, 95, 100, 97, 116, 97, 47>>   \* "./wal_data/"
DashLogDir == <<109, 105, 110, 105, 45, 119, 97, 108, 47>>            \* "mini-wal/"

\* The Options a program passes to Open: all unset (the defaults); a LogDir with
\* one dash and the periodic sync asked for; that LogDir with a MaxLogFileSize
\* that a second frame exceeds.
UserConfigs ==
    {[LogDir |-> <<>>, MaxLogFileSize |-> 0, EnableSync |-> FALSE],
     [LogDir |-> DashLogDir, MaxLogFileSize |-> 0, EnableSync |-> TRUE],
     [LogDir |-> DashLogDir, MaxLogFileSize |-> 14, EnableSync |-> FALSE]}

\* Bytes appended to a segment file that are not a frame: nothing, a zero
\* length prefix, and the first bytes of "Corrupted data".
Garbage == {<<>>, <<0, 0, 0, 0>>, <<67, 111, 114, 114, 117>>}

Nil == "nil"

\* ------------------------------------------------------------ small helpers
Min(a, b) == IF a < b THEN a ELSE b

Take(s, n) == SubSeq(s, 1, Min(n, Len(s)))

Drop(s, n) == SubSeq(s, Min(n, Len(s)) + 1, Len(s))

Last(s) == s[Len(s)]

NoEntry == [LogSeqNo |-> 0, Data |-> <<>>, Checksum |-> 0, IsCheckpoint |-> Nil]

\* ------------------------------------------------------------- Frame codec
\* crc32.ChecksumIEEE over a byte string, as a positional hash of its cells.
RECURSIVE ChecksumIEEE(_)
ChecksumIEEE(bytes) ==
    IF bytes = <<>> THEN 0
    ELSE (ChecksumIEEE(Take(bytes, Len(bytes) - 1)) * 257 + Last(bytes) + 1) % 1000003

\* The write path's checksum: append(data, byte(wal.lastSeqNo)).
WriteChecksum(data, seqNo) == ChecksumIEEE(Append(data, seqNo % 256))

\* entry.GetIsCheckpoint(): a nil pointer reads as false.
GetIsCheckpoint(entry) == entry.IsCheckpoint = "true"

\* pb.Marshal of WAL_DATA: fields in number order, each a tag cell and its
\* value; implicit-presence fields are left out when zero, the optional bool
\* when its pointer is nil.
Marshal(entry) ==
    (IF entry.LogSeqNo # 0 THEN <<8, entry.LogSeqNo>> ELSE <<>>)
    \o (IF entry.Data # <<>> THEN <<18, Len(entry.Data)>> \o entry.Data ELSE <<>>)
    \o (IF entry.Checksum # 0 THEN <<24, entry.Checksum>> ELSE <<>>)
    \o (IF entry.IsCheckpoint = Nil THEN <<>>
        ELSE <<32, IF entry.IsCheckpoint = "true" THEN 1 ELSE 0>>)

\* binary.Write(..., binary.LittleEndian, uint32(n))
LittleEndian(n) ==
    <<n % 256, (n \div 256) % 256, (n \div 65536) % 256, (n \div 16777216) % 256>>

\* binary.Read of a uint32 from four cells
Uint32(c) == c[1] + 256 * c[2] + 65536 * c[3] + 16777216 * c[4]

\* [4-byte little-endian length][serialized record]
Frame(entry) == LittleEndian(Len(Marshal(entry))) \o Marshal(entry)

\* pb.Unmarshal of a buffer of `size` bytes whose first Len(c) bytes were read
\* from the file and whose remaining bytes are the zeros of make([]byte, size).
\* A zero or unknown tag, or a field running past the buffer, is an error.
At(c, j) == IF j <= Len(c) THEN c[j] ELSE 0

RECURSIVE UnmarshalFrom(_, _, _, _)
UnmarshalFrom(c, size, i, acc) ==
    IF i > size THEN [err |-> FALSE, entry |-> acc]
    ELSE IF i + 1 > size THEN [err |-> TRUE, entry |-> NoEntry]
    ELSE LET tag == At(c, i)
             v == At(c, i + 1)
         IN CASE tag = 8 -> UnmarshalFrom(c, size, i + 2, [acc EXCEPT !.LogSeqNo = v])
              [] tag = 18 ->
                    IF i + 1 + v > size THEN [err |-> TRUE, entry |-> NoEntry]
                    ELSE UnmarshalFrom(c, size, i + 2 + v,
                            [acc EXCEPT !.Data = [k \in 1..v |-> At(c, i + 1 + k)]])
              [] tag = 24 -> UnmarshalFrom(c, size, i + 2, [acc EXCEPT !.Checksum = v])
              [] tag = 32 ->
                    UnmarshalFrom(c, size, i + 2,
                        [acc EXCEPT !.IsCheckpoint = IF v # 0 THEN "true" ELSE "false"])
              [] OTHER -> [err |-> TRUE, entry |-> NoEntry]

Unmarshal(c, size) == UnmarshalFrom(c, size, 1, NoEntry)

\* ------------------------------------------------------------ file names
\* strconv.Itoa
RECURSIVE Itoa(_)
Itoa(n) == IF n < 10 THEN <<48 + n>> ELSE Itoa(n \div 10) \o <<48 + (n % 10)>>

\* strconv.Atoi on a string of character codes; err when it is not a number
RECURSIVE AtoiFrom(_, _)
AtoiFrom(str, acc) ==
    IF str = <<>> THEN acc
    ELSE AtoiFrom(Drop(str, 1), acc * 10 + (str[1] - 48))

Atoi(str) ==
    IF str # <<>> /\ \A k \in 1..Len(str) : str[k] \in 48..57
    THEN [err |-> FALSE, n |-> AtoiFrom(str, 0)]
    ELSE [err |-> TRUE, n |-> 0]

\* strings.Split(str, "-")
RECURSIVE SplitFrom(_, _, _)
SplitFrom(str, cur, parts) ==
    IF str = <<>> THEN Append(parts, cur)
    ELSE IF str[1] = 45 THEN SplitFrom(Drop(str, 1), <<>>, Append(parts, cur))
    ELSE SplitFrom(Drop(str, 1), Append(cur, str[1]), parts)

Split(str) == SplitFrom(str, <<>>, <<>>)

\* the order sort.Strings sorts by: bytewise, a proper prefix first
RECURSIVE StringLess(_, _)
StringLess(a, b) ==
    IF b = <<>> THEN FALSE
    ELSE IF a = <<>> THEN TRUE
    ELSE IF a[1] # b[1] THEN a[1] < b[1]
    ELSE StringLess(Drop(a, 1), Drop(b, 1))

\* wal.logFileNamePrefix + strconv.Itoa(segmentNo)
FileName(dir, segmentNo) == dir \o segmentPrefix \o Itoa(segmentNo)

\* ------------------------------------------------------------------ config
DefaultConfig ==
    [LogDir |-> DefaultLogDir, MaxLogFileSize |-> 16 * 1024 * 1024, EnableSync |-> FALSE]

\* unset (zero) options of the caller's Options fall back to the defaults
initConfig(userConfig) ==
    [LogDir |-> IF userConfig.LogDir # <<>> THEN userConfig.LogDir
                ELSE DefaultConfig.LogDir,
     MaxLogFileSize |-> IF userConfig.MaxLogFileSize # 0 THEN userConfig.MaxLogFileSize
                        ELSE DefaultConfig.MaxLogFileSize,
     EnableSync |-> IF userConfig.EnableSync # DefaultConfig.EnableSync
                    THEN userConfig.EnableSync ELSE DefaultConfig.EnableSync]

\* ------------------------------------------------- the engine and its file
\* A state s of the engine's world is [files, synced, wal]:
\*   files[n]   the cells of segment file n, as a reader of the file sees them
\*   synced[n]  how many of those cells an fsync has made durable
\*   wal        the WriteAheadLog struct: file ("nil" or "file"), the os.File
\*              object behind it (fseg, fclosed), the bufio.Writer (buf, berr),
\*              currentSegmentNo, lastSeqNo, cancelled (ctx.Err() != nil),
\*              maxLogFileSize
\* `dev` is whether the device accepts writes and fsyncs at the moment.
NoWal ==
    [file |-> Nil, fseg |-> 0, fclosed |-> TRUE, buf |-> <<>>, berr |-> FALSE,
     currentSegmentNo |-> 0, lastSeqNo |-> 0, cancelled |-> FALSE,
     maxLogFileSize |-> 0]

\* bufio.Writer.Flush: the buffered cells go to the file in one write; an
\* error is kept in the writer and returned by every later call.
Flush(s, dev) ==
    IF s.wal.berr THEN [s |-> s, err |-> TRUE]
    ELSE IF s.wal.buf = <<>> THEN [s |-> s, err |-> FALSE]
    ELSE IF dev /\ ~s.wal.fclosed
    THEN [s |-> [s EXCEPT !.files[s.wal.fseg] = @ \o s.wal.buf, !.wal.buf = <<>>],
          err |-> FALSE]
    ELSE [s |-> [s EXCEPT !.wal.berr = TRUE], err |-> TRUE]

\* bufio.Writer.Write(p): while p does not fit, either write p straight to the
\* file (empty buffer) or fill the buffer and flush it; then copy the rest.
RECURSIVE bufWrite(_, _, _)
bufWrite(s, p, dev) ==
    IF Len(p) > BufSize - Len(s.wal.buf) /\ ~s.wal.berr
    THEN IF s.wal.buf = <<>>
         THEN IF dev /\ ~s.wal.fclosed
              THEN [s |-> [s EXCEPT !.files[s.wal.fseg] = @ \o p], err |-> FALSE]
              ELSE [s |-> [s EXCEPT !.wal.berr = TRUE], err |-> TRUE]
         ELSE LET n == BufSize - Len(s.wal.buf)
                  filled == [s EXCEPT !.wal.buf = @ \o Take(p, n)]
              IN bufWrite(Flush(filled, dev).s, Drop(p, n), dev)
    ELSE IF s.wal.berr THEN [s |-> s, err |-> TRUE]
    ELSE [s |-> [s EXCEPT !.wal.buf = @ \o p], err |-> FALSE]

\* Sync that writes the buffered cells to the file and leaves them buffered.
SyncKeep(s, dev) ==
    IF s.wal.berr THEN [s |-> s, err |-> TRUE]
    ELSE IF s.wal.file = Nil \/ s.wal.fclosed \/ ~dev THEN [s |-> s, err |-> TRUE]
    ELSE [s |-> [s EXCEPT !.files[s.wal.fseg] = @ \o s.wal.buf,
                          !.synced[s.wal.fseg] = Len(s.files[s.wal.fseg]) + Len(s.wal.buf)],
          err |-> FALSE]

\* Sync: bufWriter.Flush() then wal.file.Sync(); a nil or closed file, or a
\* failing device, is an error.
Sync(s, dev) ==
    LET f == Flush(s, dev)
    IN IF f.err THEN f
       ELSE IF f.s.wal.file = Nil \/ f.s.wal.fclosed \/ ~dev THEN [s |-> f.s, err |-> TRUE]
       ELSE [s |-> [f.s EXCEPT !.synced[f.s.wal.fseg] = Len(f.s.files[f.s.wal.fseg])],
             err |-> FALSE]

\* WriteIntoBuffer without the length prefix: frames the reader cannot delimit.
WriteIntoBufferNoPrefix(s, entry, dev) == bufWrite(s, Marshal(entry), dev)

\* WriteIntoBuffer that flushes every frame to the file at once.
WriteIntoBufferThrough(s, entry, dev) ==
    LET size == bufWrite(s, LittleEndian(Len(Marshal(entry))), dev)
        body == bufWrite(size.s, Marshal(entry), dev)
    IN IF size.err THEN size ELSE IF body.err THEN body ELSE Flush(body.s, dev)

\* WriteIntoBuffer: the 4-byte length, then the marshalled entry.
WriteIntoBuffer(s, entry, dev) ==
    LET size == bufWrite(s, LittleEndian(Len(Marshal(entry))), dev)
    IN IF size.err THEN size ELSE bufWrite(size.s, Marshal(entry), dev)

\* createNewSegment: O_CREATE|O_WRONLY|O_APPEND on prefix + currentSegmentNo,
\* and a new bufio.Writer on it.
createNewSegment(s, dev) ==
    IF ~dev THEN [s |-> s, err |-> TRUE]
    ELSE LET n == s.wal.currentSegmentNo
         IN [s |-> [s EXCEPT
                      !.files = IF n \in DOMAIN s.files THEN @ ELSE (n :> <<>>) @@ @,
                      !.synced = IF n \in DOMAIN s.synced THEN @ ELSE (n :> 0) @@ @,
                      !.wal.file = "file", !.wal.fseg = n, !.wal.fclosed = FALSE,
                      !.wal.buf = <<>>, !.wal.berr = FALSE],
             err |-> FALSE]

\* ------------------------------------------------------- segment discovery
\* checkEmptyDir
checkEmptyDir(files) == DOMAIN files = {}

\* The last name of sort.Strings(filepath.Glob(prefix + "*")), as the segment
\* whose file carries that name.
LastLogFile(files, dir) ==
    CHOOSE n \in DOMAIN files :
        \A m \in DOMAIN files \ {n} : StringLess(FileName(dir, m), FileName(dir, n))

\* openExistingSegment: open the last name O_WRONLY|O_APPEND, take the segment
\* number from strings.Split(name, "-")[2], seek to the end.  `offset` is the
\* position the handle is left at.
openExistingSegment(s, dir) ==
    LET last == LastLogFile(s.files, dir)
        parts == Split(FileName(dir, last))
        lastSegmentNo == Atoi(parts[3])
    IN IF Len(parts) < 3 THEN [s |-> s, err |-> TRUE, panic |-> TRUE, offset |-> 0]
       ELSE IF lastSegmentNo.err THEN [s |-> s, err |-> TRUE, panic |-> FALSE, offset |-> 0]
       ELSE [s |-> [s EXCEPT !.wal.file = "file", !.wal.fseg = last, !.wal.fclosed = FALSE,
                             !.wal.buf = <<>>, !.wal.berr = FALSE,
                             !.wal.currentSegmentNo = lastSegmentNo.n],
             err |-> FALSE, panic |-> FALSE, offset |-> Len(s.files[last])]

\* openExistingOrCreateSegment
openExistingOrCreateSegment(s, dir, dev) ==
    IF checkEmptyDir(s.files)
    THEN LET c == createNewSegment(s, dev)
         IN [s |-> c.s, err |-> c.err, panic |-> FALSE, offset |-> 0]
    ELSE openExistingSegment(s, dir)

\* ---------------------------------------------------------- recovery scan
\* verifyChecksum
verifyChecksum(entry) == entry.Checksum = ChecksumIEEE(entry.Data)

\* UnmarshalAndValidateEntry
UnmarshalAndValidateEntry(c, size) ==
    LET u == Unmarshal(c, size)
    IN IF u.err THEN u
       ELSE IF ~verifyChecksum(u.entry) THEN [err |-> TRUE, entry |-> NoEntry]
       ELSE u

\* getLastEntryInSegment: frames are read through wal.file from the position
\* the handle is at.  A clean end of file ends the scan; a short length
\* prefix, a frame with no bytes after its prefix and a frame that does not
\* validate are errors.  rdErr: the read on the handle reports an error of its
\* own (the handle is opened O_WRONLY).
RECURSIVE getLastEntryInSegment(_, _, _, _)
getLastEntryInSegment(cells, pos, lastEntry, rdErr) ==
    LET rem == Len(cells) - pos
        size == Uint32(SubSeq(cells, pos + 1, pos + PrefixLen))
        n == Min(size, rem - PrefixLen)
        v == UnmarshalAndValidateEntry(
                 SubSeq(cells, pos + PrefixLen + 1, pos + PrefixLen + n), size)
    IN IF rdErr THEN [err |-> TRUE, entry |-> NoEntry]
       ELSE IF rem = 0 THEN [err |-> FALSE, entry |-> lastEntry]
       ELSE IF rem < PrefixLen THEN [err |-> TRUE, entry |-> NoEntry]
       ELSE IF size > 0 /\ rem = PrefixLen THEN [err |-> TRUE, entry |-> NoEntry]
       ELSE IF v.err THEN [err |-> TRUE, entry |-> lastEntry]
       ELSE getLastEntryInSegment(cells, pos + PrefixLen + n, v.entry, rdErr)

\* getLastSeqNo: 0 when the scan found no entry
getLastSeqNo(cells, offset, rdErr) ==
    LET lastEntry == getLastEntryInSegment(cells, offset, NoEntry, rdErr)
    IN IF lastEntry.err THEN [err |-> TRUE, n |-> 0]
       ELSE [err |-> FALSE, n |-> lastEntry.entry.LogSeqNo]

\* Open: res is "ok" (an engine is returned and keepSyncing started), "error"
\* (nil and an error) or "panic".
Open(files, synced, userConfig, rdErr, dev) ==
    LET config == initConfig(userConfig)
        s0 == [files |-> files, synced |-> synced,
               wal |-> [NoWal EXCEPT !.lastSeqNo = 0, !.currentSegmentNo = 1,
                                     !.maxLogFileSize = config.MaxLogFileSize]]
        seg == openExistingOrCreateSegment(s0, config.LogDir, dev)
        seq == getLastSeqNo(seg.s.files[seg.s.wal.fseg], seg.offset, rdErr)
    IN IF seg.panic THEN [res |-> "panic", s |-> s0]
       ELSE IF seg.err THEN [res |-> "error", s |-> [seg.s EXCEPT !.wal = NoWal]]
       ELSE IF seq.err THEN [res |-> "error", s |-> [seg.s EXCEPT !.wal = NoWal]]
       ELSE [res |-> "ok", s |-> [seg.s EXCEPT !.wal.lastSeqNo = seq.n]]

\* ------------------------------------------------------------- write path
\* should_rotate: appending the frame of the incoming write would take the
\* active segment past the configured maximum.
checkRotateLog(s, data) ==
    LET incoming == [NoEntry EXCEPT !.LogSeqNo = s.wal.lastSeqNo + 1, !.Data = data,
                         !.Checksum = WriteChecksum(data, s.wal.lastSeqNo + 1)]
    IN Len(s.files[s.wal.fseg]) + Len(s.wal.buf) + Len(Frame(incoming))
           > s.wal.maxLogFileSize

\* rotate: flush and sync the active segment, then create the segment numbered
\* one greater and make it the active one.
rotateLog(s, dev) ==
    LET sealed == Sync(s, dev)
    IN IF sealed.err THEN sealed
       ELSE createNewSegment(
                [sealed.s EXCEPT !.wal.currentSegmentNo = @ + 1], dev)

\* writeEntry's body without the Sync a checkpoint write makes before it
\* buffers its record.
appendEntryNoBarrier(s, data, isCheckpoint, dev) ==
    LET rotate == checkRotateLog(s, data)
        flushed == IF rotate THEN Sync(s, dev) ELSE [s |-> s, err |-> FALSE]
        rotated == IF rotate /\ ~flushed.err THEN rotateLog(flushed.s, dev) ELSE flushed
        s1 == [rotated.s EXCEPT !.wal.lastSeqNo = @ + 1]
        entry == [NoEntry EXCEPT !.LogSeqNo = s1.wal.lastSeqNo, !.Data = data,
                      !.Checksum = WriteChecksum(data, s1.wal.lastSeqNo)]
    IN IF rotated.err THEN rotated
       ELSE WriteIntoBuffer(s1,
                IF isCheckpoint THEN [entry EXCEPT !.IsCheckpoint = "true"] ELSE entry,
                dev)

\* writeEntry past its closed check: rotate when due, take the next sequence
\* number, build the entry, Sync first when it is a checkpoint, and buffer it.
appendEntry(s, data, isCheckpoint, dev) ==
    LET rotate == checkRotateLog(s, data)
        flushed == IF rotate THEN Sync(s, dev) ELSE [s |-> s, err |-> FALSE]
        rotated == IF rotate /\ ~flushed.err THEN rotateLog(flushed.s, dev) ELSE flushed
        s1 == [rotated.s EXCEPT !.wal.lastSeqNo = @ + 1]
        entry == [NoEntry EXCEPT !.LogSeqNo = s1.wal.lastSeqNo, !.Data = data,
                      !.Checksum = WriteChecksum(data, s1.wal.lastSeqNo)]
        checkpoint == IF isCheckpoint THEN Sync(s1, dev) ELSE [s |-> s1, err |-> FALSE]
    IN IF rotated.err THEN rotated
       ELSE IF checkpoint.err THEN checkpoint
       ELSE WriteIntoBuffer(checkpoint.s,
                IF isCheckpoint THEN [entry EXCEPT !.IsCheckpoint = "true"] ELSE entry,
                dev)

\* writeEntry without the closed check, as Write was before it had one.
writeEntryUnchecked(s, data, isCheckpoint, dev) == appendEntry(s, data, isCheckpoint, dev)

\* writeEntry (Write is writeEntry(data, false), WriteWithCheckpoint is
\* writeEntry(data, true)), run under wal.locker.
writeEntry(s, data, isCheckpoint, dev) ==
    IF s.wal.file = Nil \/ s.wal.cancelled THEN [s |-> s, err |-> TRUE]
    ELSE appendEntry(s, data, isCheckpoint, dev)

\* -------------------------------------------------------------- read path
\* The check of readAllEntries left out: every entry passes.
checksumUnverified(entry) == TRUE

\* The check of readAllEntries: the stored checksum against the checksum of
\* append(entry.GetData(), byte(entry.GetLogSeqNo())).
checksumMatches(entry) == WriteChecksum(entry.Data, entry.LogSeqNo) = entry.Checksum

\* The scan of readAllEntries over the cells of the file, from position pos.
RECURSIVE readEntries(_, _, _, _)
readEntries(cells, pos, entries, fromCheckpoint) ==
    LET rem == Len(cells) - pos
        size == Uint32(SubSeq(cells, pos + 1, pos + PrefixLen))
        n == Min(size, rem - PrefixLen)
        u == Unmarshal(SubSeq(cells, pos + PrefixLen + 1, pos + PrefixLen + n), size)
    IN IF rem = 0 THEN [err |-> FALSE, entries |-> entries]
       ELSE IF rem < PrefixLen THEN [err |-> TRUE, entries |-> <<>>]
       ELSE IF size > 0 /\ rem = PrefixLen THEN [err |-> TRUE, entries |-> <<>>]
       ELSE IF u.err THEN [err |-> TRUE, entries |-> <<>>]
       ELSE IF ~checksumMatches(u.entry) THEN [err |-> TRUE, entries |-> <<>>]
       ELSE readEntries(cells, pos + PrefixLen + n,
                IF fromCheckpoint /\ GetIsCheckpoint(u.entry) THEN <<u.entry>>
                ELSE Append(entries, u.entry),
                fromCheckpoint)

\* readAllEntries: os.Open(wal.file.Name()) and the scan; wal.file.Name() on a
\* nil file is a nil dereference.
readAllEntries(s, fromCheckpoint) ==
    IF s.wal.file = Nil THEN [panic |-> TRUE, err |-> TRUE, entries |-> <<>>]
    ELSE LET r == readEntries(s.files[s.wal.fseg], 0, <<>>, fromCheckpoint)
         IN [panic |-> FALSE, err |-> r.err, entries |-> r.entries]

ReadAll(s) == readAllEntries(s, FALSE)

\* ReadFromCheckPoint that does not restart at a checkpoint.
ReadFromCheckPointAll(s) == readAllEntries(s, FALSE)

ReadFromCheckPoint(s) == readAllEntries(s, TRUE)

\* ------------------------------------------------------------------ Close
\* Close that releases the file without the final Sync.
CloseNoSync(s, dev) ==
    [s |-> [s EXCEPT !.wal.cancelled = TRUE, !.wal.fclosed = TRUE, !.wal.file = Nil],
     err |-> s.wal.fclosed]

\* Close: cancel the context, Sync, reset the ticker, close the file and set
\* wal.file to nil.  A failing Sync returns before the file is closed.
Close(s, dev) ==
    LET cancelled == [s EXCEPT !.wal.cancelled = TRUE]
        flushed == Sync(cancelled, dev)
    IN IF flushed.err THEN flushed
       ELSE [s |-> [flushed.s EXCEPT !.wal.fclosed = TRUE, !.wal.file = Nil],
             err |-> flushed.s.wal.fclosed]

\* ================================================================== state
VARIABLES
    userConfig, \* the Options this program passes to Open
    files,      \* segment number -> cells of the segment file
    synced,     \* segment number -> count of cells made durable by fsync
    wal,        \* the WriteAheadLog struct of the engine the caller holds
    opened,     \* whether the caller holds an engine returned by Open
    bg,         \* the keepSyncing goroutine: "none", "running" or "exited"
    ret,        \* the public call the last step made, if it made one:
                \* [op, err, panic, entries, changed]
    accepted,   \* the entries of the write calls that returned nil, in order
    count,      \* [opens, writes, events] so far
    fg          \* wal.locker and the writeEntry calls in progress, per thread:
                \* [locker, calls, returned]; locker is 0 (free) or its holder

vars == <<userConfig, files, synced, wal, opened, bg, ret, accepted, count, fg>>

World == [files |-> files, synced |-> synced, wal |-> wal]

\* The threads of the program that call the engine, and a thread outside
\* writeEntry: pc is where the thread stands, returned counts its calls that
\* returned nil.
NumWriters == 2

Threads == 1..NumWriters

Idle == [pc |-> "idle", data |-> <<>>, isCheckpoint |-> FALSE, entry |-> NoEntry]

NoFg == [locker |-> 0, calls |-> [t \in Threads |-> Idle],
         returned |-> [t \in Threads |-> 0]]

NoCall ==
    [op |-> "none", err |-> FALSE, panic |-> FALSE, entries |-> <<>>, changed |-> FALSE]

\* The call op returned err (or panicked), with entries; changed is whether it
\* left the files, the durable counts or the engine other than it found them.
Called(op, err, panic, entries) ==
    ret' = [op |-> op, err |-> err, panic |-> panic, entries |-> entries,
            changed |-> (files' # files \/ synced' # synced \/ wal' # wal)]

Init ==
    /\ userConfig \in UserConfigs
    /\ files = <<>>
    /\ synced = <<>>
    /\ wal = NoWal
    /\ opened = FALSE
    /\ bg = "none"
    /\ ret = NoCall
    /\ accepted = <<>>
    /\ count = [opens |-> 0, writes |-> 0, events |-> 0]
    /\ fg = NoFg

\* The engine is shut: Close has cancelled the context or released the file.
Shut == wal.file = Nil \/ wal.cancelled

\* A call runs with the device healthy (dev), or, while the budget of events
\* lasts, with every write and fsync it issues failing; a fault is an event
\* only where it changes what the call does.
Device(dev, healthy, faulty) ==
    /\ dev \/ (count.events < MaxEvents /\ faulty # healthy)
    /\ count' = IF dev THEN count ELSE [count EXCEPT !.events = @ + 1]

\* Open(config): a first engine, or a new one once the previous engine was
\* closed and its goroutine is gone.
DoOpen(rdErr, dev) ==
    /\ count.opens < MaxOpens
    /\ ~opened \/ (Shut /\ bg # "running")
    /\ LET r == Open(files, synced, userConfig, rdErr, dev)
       IN /\ dev \/ (count.events < MaxEvents
                       /\ r # Open(files, synced, userConfig, rdErr, TRUE))
          /\ files' = r.s.files
          /\ synced' = r.s.synced
          /\ wal' = r.s.wal
          /\ opened' = (r.res = "ok")
          /\ bg' = IF r.res = "ok" THEN "running" ELSE "none"
          /\ Called("Open", r.res # "ok", r.res = "panic", <<>>)
    /\ count' = [count EXCEPT !.opens = @ + 1,
                              !.events = IF dev THEN @ ELSE @ + 1]
    /\ UNCHANGED <<userConfig, fg, accepted>>

\* Write(data) and WriteWithCheckpoint(data): writeEntry from Lock to Unlock,
\* which no other holder of wal.locker can interleave with.
DoWrite(data, isCheckpoint, dev) ==
    /\ opened
    /\ fg.locker = 0
    /\ Shut \/ count.writes < MaxSeqNo
    /\ dev \/ (count.events < MaxEvents
                 /\ writeEntry(World, data, isCheckpoint, FALSE)
                      # writeEntry(World, data, isCheckpoint, TRUE))
    /\ LET r == writeEntry(World, data, isCheckpoint, dev)
       IN /\ files' = r.s.files
          /\ synced' = r.s.synced
          /\ wal' = r.s.wal
          /\ accepted' = IF r.err THEN accepted
                         ELSE Append(accepted,
                                  [LogSeqNo |-> r.s.wal.lastSeqNo, Data |-> data,
                                   IsCheckpoint |-> isCheckpoint])
          /\ Called(IF isCheckpoint THEN "WriteWithCheckpoint" ELSE "Write",
                    r.err, FALSE, <<>>)
    /\ count' = [count EXCEPT !.writes = IF Shut THEN @ ELSE @ + 1,
                              !.events = IF dev THEN @ ELSE @ + 1]
    /\ UNCHANGED <<userConfig, fg, opened, bg>>

\* Sync()
DoSync(dev) ==
    /\ opened
    /\ Device(dev, Sync(World, TRUE), Sync(World, FALSE))
    /\ LET r == Sync(World, dev)
       IN /\ files' = r.s.files
          /\ synced' = r.s.synced
          /\ wal' = r.s.wal
          /\ Called("Sync", r.err, FALSE, <<>>)
    /\ UNCHANGED <<userConfig, fg, opened, bg, accepted>>

\* ReadAll() and ReadFromCheckPoint(); a panic ends the process
DoRead(fromCheckpoint) ==
    /\ opened
    /\ LET r == IF fromCheckpoint THEN ReadFromCheckPoint(World) ELSE ReadAll(World)
       IN /\ opened' = ~r.panic
          /\ wal' = IF r.panic THEN NoWal ELSE wal
          /\ bg' = IF r.panic THEN "none" ELSE bg
          /\ ret' = [op |-> IF fromCheckpoint THEN "ReadFromCheckPoint" ELSE "ReadAll",
                     err |-> r.err, panic |-> r.panic, entries |-> r.entries,
                     changed |-> FALSE]
    /\ UNCHANGED <<userConfig, fg, files, synced, accepted, count>>

\* Close()
DoClose(dev) ==
    /\ opened
    /\ Device(dev, Close(World, TRUE), Close(World, FALSE))
    /\ LET r == Close(World, dev)
       IN /\ files' = r.s.files
          /\ synced' = r.s.synced
          /\ wal' = r.s.wal
          /\ Called("Close", r.err, FALSE, <<>>)
    /\ UNCHANGED <<userConfig, fg, opened, bg, accepted>>

\* keepSyncing with no ticker case: the goroutine only waits for the context.
keepSyncingIdle(dev) ==
    /\ bg = "running"
    /\ dev
    /\ UNCHANGED vars

\* keepSyncing, the ticker case: Lock, Sync, Unlock; an error is only logged.
\* The select may take this case with the context already cancelled.
keepSyncing(dev) ==
    /\ bg = "running"
    /\ fg.locker = 0
    /\ Device(dev, Sync(World, TRUE), Sync(World, FALSE))
    /\ LET r == Sync(World, dev)
       IN /\ files' = r.s.files
          /\ synced' = r.s.synced
          /\ wal' = r.s.wal
    /\ ret' = NoCall
    /\ UNCHANGED <<userConfig, fg, opened, bg, accepted>>

\* keepSyncing, the ctx.Done() case: the goroutine returns.
keepSyncingDone ==
    /\ bg = "running"
    /\ wal.cancelled
    /\ bg' = "exited"
    /\ ret' = NoCall
    /\ UNCHANGED <<userConfig, fg, files, synced, wal, opened, accepted, count>>

\* The process dies with the engine open: the buffer is lost, and of the cells
\* of the active segment that no fsync covered any prefix survives.
Crash(keep) ==
    /\ opened
    /\ ~Shut
    /\ count.events < MaxEvents
    /\ keep \in synced[wal.fseg]..Len(files[wal.fseg])
    /\ files' = [files EXCEPT ![wal.fseg] = Take(@, keep)]
    /\ opened' = FALSE
    /\ wal' = NoWal
    /\ bg' = "none"
    /\ ret' = NoCall
    /\ count' = [count EXCEPT !.events = @ + 1]
    /\ UNCHANGED <<userConfig, fg, synced, accepted>>

\* The active segment file is changed behind the engine, open or closed: the
\* lowest bit of one stored byte is flipped, or bytes that are no frame are
\* appended.
Tamper(j, garbage) ==
    /\ opened
    /\ count.events < MaxEvents
    /\ \/ /\ j \in 1..Len(files[wal.fseg])
          /\ garbage = <<>>
          /\ files' = [files EXCEPT ![wal.fseg][j] = IF @ % 2 = 0 THEN @ + 1 ELSE @ - 1]
       \/ /\ j = 0
          /\ garbage # <<>>
          /\ files' = [files EXCEPT ![wal.fseg] = @ \o garbage]
    /\ ret' = NoCall
    /\ count' = [count EXCEPT !.events = @ + 1]
    /\ UNCHANGED <<userConfig, fg, synced, wal, opened, bg, accepted>>

Next ==
    \/ \E rdErr \in BOOLEAN, dev \in BOOLEAN : DoOpen(rdErr, dev)
    \/ \E data \in Payloads, isCheckpoint \in BOOLEAN, dev \in BOOLEAN :
           DoWrite(data, isCheckpoint, dev)
    \/ \E dev \in BOOLEAN : DoSync(dev)
    \/ \E fromCheckpoint \in BOOLEAN : DoRead(fromCheckpoint)
    \/ \E dev \in BOOLEAN : DoClose(dev)
    \/ \E dev \in BOOLEAN : keepSyncing(dev)
    \/ keepSyncingDone
    \/ \E keep \in 0..(MaxSeqNo * 16) : Crash(keep)

Spec == Init /\ [][Next]_vars

\* ------------------------------------------ reading a settled, altered file
\* The calls of one run of a program: Write or WriteWithCheckpoint per element.
Calls == UNION {[1..n -> Payloads \X BOOLEAN] : n \in 0..MaxSeqNo}

RECURSIVE writeEntries(_, _, _)
writeEntries(s, calls, i) ==
    IF i > Len(calls) THEN s
    ELSE writeEntries(writeEntry(s, calls[i][1], calls[i][2], TRUE).s, calls, i + 1)

RECURSIVE Accepted(_, _)
Accepted(calls, i) ==
    IF i > Len(calls) THEN <<>>
    ELSE <<[LogSeqNo |-> i, Data |-> calls[i][1], IsCheckpoint |-> calls[i][2]]>>
             \o Accepted(calls, i + 1)

\* The world after Open on an empty directory, the calls, and Sync.
Settled(calls) ==
    Sync(writeEntries(Open(<<>>, <<>>, userConfig, FALSE, TRUE).s, calls, 1), TRUE).s

InitSettled ==
    /\ userConfig \in UserConfigs
    /\ \E calls \in Calls :
          /\ files = Settled(calls).files
          /\ synced = Settled(calls).synced
          /\ wal = Settled(calls).wal
          /\ accepted = Accepted(calls, 1)
          /\ count = [opens |-> 1, writes |-> Len(calls), events |-> 0]
    /\ opened = TRUE
    /\ bg = "running"
    /\ ret = NoCall
    /\ fg = NoFg

NextRead ==
    \/ \E j \in 0..(MaxSeqNo * 16), garbage \in Garbage : Tamper(j, garbage)
    \/ \E fromCheckpoint \in BOOLEAN : DoRead(fromCheckpoint)

SpecRead == InitSettled /\ [][NextRead]_vars

\* ------------------------------------------- reopening a settled, altered log
\* A program closes the engine of a settled log and opens the log again, the
\* segment file having been altered at some point in between.
NextRecover ==
    \/ DoClose(TRUE)
    \/ keepSyncingDone
    \/ \E j \in 0..(MaxSeqNo * 16), garbage \in Garbage : Tamper(j, garbage)
    \/ \E rdErr \in BOOLEAN : DoOpen(rdErr, TRUE)

SpecRecover == InitSettled /\ [][NextRecover]_vars

\* -------------------------------------------- the engine left to its ticker
\* A program that opens the engine, writes and reads, and never calls Sync or
\* Close (TestWALSyncing): the ticker of keepSyncing fires every SyncInterval
\* for as long as the goroutine runs, so its case is taken again and again.
NextSync ==
    \/ \E rdErr \in BOOLEAN : DoOpen(rdErr, TRUE)
    \/ \E data \in Payloads, isCheckpoint \in BOOLEAN : DoWrite(data, isCheckpoint, TRUE)
    \/ \E fromCheckpoint \in BOOLEAN : DoRead(fromCheckpoint)
    \/ keepSyncing(TRUE)

SpecSync == Init /\ [][NextSync]_vars /\ WF_vars(keepSyncing(TRUE))

\* ------------------------------------------- writeEntry, statement by statement
\* Several threads of one program call Write and WriteWithCheckpoint on the
\* same engine; each call is taken through writeEntry one statement at a time.
Call(t) == fg.calls[t]

\* The world a step of thread t leaves.
Leaves(s) ==
    /\ files' = s.files
    /\ synced' = s.synced
    /\ wal' = s.wal

\* Thread t is taken to pc, with the entry it has built so far.
Goes(t, pc, entry) ==
    /\ fg' = [fg EXCEPT !.calls[t].pc = pc, !.calls[t].entry = entry]
    /\ ret' = NoCall
    /\ UNCHANGED <<userConfig, opened, bg, accepted, count>>

\* writeEntry returning without the deferred Unlock: the lock stays with t.
ReturnsLocked(t, err) ==
    /\ fg' = [fg EXCEPT !.calls[t] = Idle,
                        !.returned[t] = IF err THEN @ ELSE @ + 1]
    /\ accepted' = IF err THEN accepted
                   ELSE Append(accepted,
                            [LogSeqNo |-> Call(t).entry.LogSeqNo, Data |-> Call(t).data,
                             IsCheckpoint |-> Call(t).isCheckpoint])
    /\ Called(IF Call(t).isCheckpoint THEN "WriteWithCheckpoint" ELSE "Write",
              err, FALSE, <<>>)
    /\ UNCHANGED <<userConfig, opened, bg, count>>

\* writeEntry returns err on thread t; the deferred Unlock releases wal.locker.
Returns(t, err) ==
    /\ fg' = [fg EXCEPT !.locker = 0, !.calls[t] = Idle,
                        !.returned[t] = IF err THEN @ ELSE @ + 1]
    /\ accepted' = IF err THEN accepted
                   ELSE Append(accepted,
                            [LogSeqNo |-> Call(t).entry.LogSeqNo, Data |-> Call(t).data,
                             IsCheckpoint |-> Call(t).isCheckpoint])
    /\ Called(IF Call(t).isCheckpoint THEN "WriteWithCheckpoint" ELSE "Write",
              err, FALSE, <<>>)
    /\ UNCHANGED <<userConfig, opened, bg, count>>

\* writeEntry entered without waiting for wal.locker.
LockUnguarded(t, data, isCheckpoint) ==
    /\ opened
    /\ Call(t).pc = "idle"
    /\ count.writes < MaxSeqNo
    /\ fg' = [fg EXCEPT !.locker = t,
                        !.calls[t] = [Idle EXCEPT !.pc = "locked", !.data = data,
                                                  !.isCheckpoint = isCheckpoint]]
    /\ count' = [count EXCEPT !.writes = @ + 1]
    /\ ret' = NoCall
    /\ UNCHANGED <<userConfig, files, synced, wal, opened, bg, accepted>>

\* Thread t calls Write(data) or WriteWithCheckpoint(data): wal.locker.Lock()
\* returns once no other thread holds the lock.
Lock(t, data, isCheckpoint) ==
    /\ fg.locker = 0
    /\ LockUnguarded(t, data, isCheckpoint)

\* The closed check, and the rotation when it is due.
Rotate(t) ==
    /\ Call(t).pc = "locked"
    /\ LET rotate == checkRotateLog(World, Call(t).data)
           flushed == IF rotate THEN Sync(World, TRUE) ELSE [s |-> World, err |-> FALSE]
           rotated == IF rotate /\ ~flushed.err THEN rotateLog(flushed.s, TRUE)
                      ELSE flushed
       IN IF wal.file = Nil \/ wal.cancelled
          THEN UNCHANGED <<files, synced, wal>> /\ Returns(t, TRUE)
          ELSE /\ Leaves(rotated.s)
               /\ IF rotated.err THEN Returns(t, TRUE)
                  ELSE Goes(t, "rotated", Call(t).entry)

\* wal.lastSeqNo++
NextSeqNo(t) ==
    /\ Call(t).pc = "rotated"
    /\ wal' = [wal EXCEPT !.lastSeqNo = @ + 1]
    /\ Goes(t, "counted", Call(t).entry)
    /\ UNCHANGED <<files, synced>>

\* The entry is built from wal.lastSeqNo as it is now; a checkpoint Syncs and
\* sets the flag.
BuildEntry(t) ==
    /\ Call(t).pc = "counted"
    /\ LET entry == [NoEntry EXCEPT !.LogSeqNo = wal.lastSeqNo, !.Data = Call(t).data,
                         !.Checksum = WriteChecksum(Call(t).data, wal.lastSeqNo)]
           checkpoint == IF Call(t).isCheckpoint THEN Sync(World, TRUE)
                         ELSE [s |-> World, err |-> FALSE]
       IN /\ Leaves(checkpoint.s)
          /\ IF checkpoint.err THEN Returns(t, TRUE)
             ELSE Goes(t, "built",
                       IF Call(t).isCheckpoint THEN [entry EXCEPT !.IsCheckpoint = "true"]
                       ELSE entry)

\* WriteIntoBuffer: binary.Write of the size.
WriteSize(t) ==
    /\ Call(t).pc = "built"
    /\ LET size == bufWrite(World, LittleEndian(Len(Marshal(Call(t).entry))), TRUE)
       IN /\ Leaves(size.s)
          /\ IF size.err THEN Returns(t, TRUE) ELSE Goes(t, "sized", Call(t).entry)

\* WriteIntoBuffer: bufWriter.Write of the marshalled entry, and the return.
WriteBody(t) ==
    /\ Call(t).pc = "sized"
    /\ LET body == bufWrite(World, Marshal(Call(t).entry), TRUE)
       IN /\ Leaves(body.s)
          /\ Returns(t, body.err)

\* The engine of one Open of an empty directory, before any call.
InitConc ==
    /\ userConfig \in UserConfigs
    /\ files = Open(<<>>, <<>>, userConfig, FALSE, TRUE).s.files
    /\ synced = Open(<<>>, <<>>, userConfig, FALSE, TRUE).s.synced
    /\ wal = Open(<<>>, <<>>, userConfig, FALSE, TRUE).s.wal
    /\ opened = TRUE
    /\ bg = "running"
    /\ ret = NoCall
    /\ accepted = <<>>
    /\ count = [opens |-> 1, writes |-> 0, events |-> 0]
    /\ fg = NoFg

NextConc ==
    \/ \E t \in Threads, data \in Payloads, isCheckpoint \in BOOLEAN :
           Lock(t, data, isCheckpoint)
    \/ \E t \in Threads : Rotate(t)
    \/ \E t \in Threads : NextSeqNo(t)
    \/ \E t \in Threads : BuildEntry(t)
    \/ \E t \in Threads : WriteSize(t)
    \/ \E t \in Threads : WriteBody(t)
    \/ keepSyncing(TRUE)

SpecConc == InitConc /\ [][NextConc]_vars

\* ------------------------------------- Sync and Close beside the writers
\* The threads of SpecConc, and a thread that calls Sync and Close: neither
\* takes wal.locker, so each runs whenever it is called, whoever holds the lock.
NextRace ==
    \/ \E t \in Threads, data \in Payloads, isCheckpoint \in BOOLEAN :
           Lock(t, data, isCheckpoint)
    \/ \E t \in Threads : Rotate(t)
    \/ \E t \in Threads : NextSeqNo(t)
    \/ \E t \in Threads : BuildEntry(t)
    \/ \E t \in Threads : WriteSize(t)
    \/ \E t \in Threads : WriteBody(t)
    \/ keepSyncing(TRUE)
    \/ keepSyncingDone
    \/ DoSync(TRUE)
    \/ DoClose(TRUE)

SpecRace == InitConc /\ [][NextRace]_vars

\* --------------------------------------------------- waiting for wal.locker
\* The holder of wal.locker when it is the keepSyncing goroutine.
Syncer == NumWriters + 1

\* Thread t calls Write(data) or WriteWithCheckpoint(data) and is at
\* wal.locker.Lock(), which has not returned yet.
Request(t, data, isCheckpoint) ==
    /\ opened
    /\ Call(t).pc = "idle"
    /\ count.writes < MaxSeqNo
    /\ fg' = [fg EXCEPT !.calls[t] = [Idle EXCEPT !.pc = "lock", !.data = data,
                                                  !.isCheckpoint = isCheckpoint]]
    /\ count' = [count EXCEPT !.writes = @ + 1]
    /\ ret' = NoCall
    /\ UNCHANGED <<userConfig, files, synced, wal, opened, bg, accepted>>

\* wal.locker.Lock() returns on thread t: nobody held the lock.
Acquire(t) ==
    /\ Call(t).pc = "lock"
    /\ fg.locker = 0
    /\ fg' = [fg EXCEPT !.locker = t, !.calls[t].pc = "locked"]
    /\ ret' = NoCall
    /\ UNCHANGED <<userConfig, files, synced, wal, opened, bg, accepted, count>>

\* keepSyncing: the select takes the ticker case, with the context cancelled
\* or not; the goroutine is at wal.locker.Lock().
keepSyncingTick ==
    /\ bg = "running"
    /\ bg' = "locking"
    /\ ret' = NoCall
    /\ UNCHANGED <<userConfig, fg, files, synced, wal, opened, accepted, count>>

\* keepSyncing: wal.locker.Lock() returns.
keepSyncingLock ==
    /\ bg = "locking"
    /\ fg.locker = 0
    /\ bg' = "syncing"
    /\ fg' = [fg EXCEPT !.locker = Syncer]
    /\ ret' = NoCall
    /\ UNCHANGED <<userConfig, files, synced, wal, opened, accepted, count>>

\* keepSyncing: err := wal.Sync(), under the lock.
keepSyncingSync ==
    /\ bg = "syncing"
    /\ Leaves(Sync(World, TRUE).s)
    /\ bg' = "unlocking"
    /\ ret' = NoCall
    /\ UNCHANGED <<userConfig, fg, opened, accepted, count>>

\* keepSyncing: wal.locker.Unlock(); the error is logged and the loop goes
\* back to the select.
keepSyncingUnlock ==
    /\ bg = "unlocking"
    /\ bg' = "running"
    /\ fg' = [fg EXCEPT !.locker = 0]
    /\ ret' = NoCall
    /\ UNCHANGED <<userConfig, files, synced, wal, opened, accepted, count>>

\* The engine of one Open of an empty directory, its log not set to rotate.
InitLock == InitConc /\ userConfig.MaxLogFileSize = 0

\* The statements of the writers, which write one byte each, and of
\* keepSyncing, each waiting for wal.locker where the code does, and Close,
\* which takes no lock.
NextLock ==
    \/ \E t \in Threads, isCheckpoint \in BOOLEAN : Request(t, <<1>>, isCheckpoint)
    \/ \E t \in Threads : Acquire(t)
    \/ \E t \in Threads : Rotate(t)
    \/ \E t \in Threads : NextSeqNo(t)
    \/ \E t \in Threads : BuildEntry(t)
    \/ \E t \in Threads : WriteSize(t)
    \/ \E t \in Threads : WriteBody(t)
    \/ keepSyncingTick
    \/ keepSyncingLock
    \/ keepSyncingSync
    \/ keepSyncingUnlock
    \/ keepSyncingDone
    \/ DoClose(TRUE)

\* A goroutine that can run does run: the statements after Lock() of a writer
\* and of keepSyncing are taken.  sync.Mutex hands the lock to a goroutine
\* that has waited for it (its starvation mode), so a waiter for which the
\* lock is free again and again obtains it.
Progress ==
    /\ \A t \in Threads :
           /\ SF_vars(Acquire(t))
           /\ WF_vars(Rotate(t))
           /\ WF_vars(NextSeqNo(t))
           /\ WF_vars(BuildEntry(t))
           /\ WF_vars(WriteSize(t))
           /\ WF_vars(WriteBody(t))
    /\ SF_vars(keepSyncingLock)
    /\ WF_vars(keepSyncingSync)
    /\ WF_vars(keepSyncingUnlock)

SpecLock == InitLock /\ [][NextLock]_vars /\ Progress

\* ------------------------------------------ a program started on an old log
\* An earlier run of the program opened an empty directory, wrote n records
\* of one byte and closed the engine; the program now starts again on what
\* that run left, or on an empty directory, and is left to its ticker.
MaxRecords == 11

Repeat(n) == [i \in 1..n |-> <<<<1>>, FALSE>>]

LeftBehind(n) ==
    Close(writeEntries(Open(<<>>, <<>>, userConfig, FALSE, TRUE).s, Repeat(n), 1), TRUE).s

InitExisting ==
    /\ userConfig \in UserConfigs
    /\ \/ files = <<>> /\ synced = <<>>
       \/ \E n \in 0..MaxRecords :
              /\ files = LeftBehind(n).files
              /\ synced = LeftBehind(n).synced
    /\ wal = NoWal
    /\ opened = FALSE
    /\ bg = "none"
    /\ ret = NoCall
    /\ accepted = <<>>
    /\ count = [opens |-> 0, writes |-> 0, events |-> 0]
    /\ fg = NoFg

NextExisting ==
    \/ \E rdErr \in BOOLEAN : DoOpen(rdErr, TRUE)
    \/ \E data \in Payloads, isCheckpoint \in BOOLEAN : DoWrite(data, isCheckpoint, TRUE)
    \/ keepSyncing(TRUE)

SpecExisting == InitExisting /\ [][NextExisting]_vars

\* ================================================================ properties
\* What a reader is handed, as (sequence number, payload, checkpoint flag).
Records(entries) ==
    [i \in 1..Len(entries) |->
        [LogSeqNo |-> entries[i].LogSeqNo, Data |-> entries[i].Data,
         IsCheckpoint |-> GetIsCheckpoint(entries[i])]]

\* The caller holds the engine of the first Open of an empty directory.
FirstEngine == opened /\ count.opens = 1

\* No write of the engine has rotated the log.
Unrotated == wal.currentSegmentNo = 1 /\ DOMAIN files = {1}

\* Every write call so far returned nil.
AllWritesSucceeded == Len(accepted) = count.writes

\* A Sync after the last write has succeeded: nothing is buffered and every
\* cell of the active segment is durable.
Synced ==
    /\ wal.fseg \in DOMAIN files
    /\ wal.buf = <<>>
    /\ synced[wal.fseg] = Len(files[wal.fseg])

\* C1: on a fresh log, after N successful Write/WriteWithCheckpoint calls with
\* no rotation and a Sync, ReadAll returns exactly N records, in call order,
\* with sequence numbers 1..N and the payloads written.
C1_WriteSyncReadAll ==
    (ret.op = "ReadAll" /\ FirstEngine /\ Unrotated /\ AllWritesSucceeded /\ Synced)
        => /\ ~ret.err
           /\ Len(ret.entries) = count.writes
           /\ \A i \in 1..Len(ret.entries) : ret.entries[i].LogSeqNo = i
           /\ Records(ret.entries) = accepted

C1_Witness ==
    /\ ret.op = "ReadAll" /\ FirstEngine /\ Unrotated /\ AllWritesSucceeded /\ Synced
    /\ Len(ret.entries) = MaxSeqNo
    /\ \E i, j \in 1..MaxSeqNo :
           accepted[i].IsCheckpoint /\ ~accepted[j].IsCheckpoint

\* C2: after Close has returned, a call of Write or WriteWithCheckpoint returns
\* an error and leaves the sequence number, the write buffer and the files as
\* they were.
C2_WriteAfterClose ==
    [][(wal.cancelled /\ ret'.op \in {"Write", "WriteWithCheckpoint"})
          => (ret'.err /\ wal' = wal /\ files' = files /\ synced' = synced)]_vars

C2_Witness ==
    /\ ret.op \in {"Write", "WriteWithCheckpoint"}
    /\ ret.err /\ ~ret.changed
    /\ wal.file = Nil /\ wal.cancelled
    /\ accepted # <<>>

\* The write calls of the first run all succeeded, no fault or crash happened,
\* and every cell of every segment is durable.
CleanFirstRun ==
    /\ accepted # <<>>
    /\ AllWritesSucceeded
    /\ count.events = 0
    /\ \A n \in DOMAIN files : synced[n] = Len(files[n])

\* C3: after successful writes, Sync and Close, a new engine opened on the
\* same directory opens successfully and its ReadAll returns the records
\* written.
C3_ReopenRoundTrip ==
    /\ (ret.op = "Open" /\ count.opens = 2 /\ CleanFirstRun) => ~ret.err
    /\ (ret.op = "ReadAll" /\ count.opens = 2 /\ CleanFirstRun /\ Synced)
           => (~ret.err /\ Records(ret.entries) = accepted)

\* The highest sequence number among the records stored in a segment file.
HighestSeqNo(cells) ==
    LET stored == readEntries(cells, 0, <<>>, FALSE).entries
        seqNos == {stored[i].LogSeqNo : i \in 1..Len(stored)}
    IN IF seqNos = {} THEN 0 ELSE CHOOSE n \in seqNos : \A m \in seqNos : m <= n

\* C4: after Open the engine's last sequence number is the highest sequence
\* number stored in the active segment (0 for an empty segment), so that no
\* sequence number is used again after a close and reopen.
C4_RecoveredSeqNo ==
    (ret.op = "Open" /\ ~ret.err /\ count.events = 0)
        => wal.lastSeqNo = HighestSeqNo(files[wal.fseg])

\* The suffix of entries that starts at its last checkpoint entry; all of it
\* when it has none.
FromLastCheckpoint(entries) ==
    LET cps == {i \in 1..Len(entries) : GetIsCheckpoint(entries[i])}
    IN IF cps = {} THEN entries
       ELSE SubSeq(entries, CHOOSE i \in cps : \A k \in cps : k <= i, Len(entries))

\* C5: ReadFromCheckPoint returns the suffix of ReadAll's result that starts
\* at the most recent checkpoint record, and all of ReadAll's result when the
\* segment holds no checkpoint record.
C5_CheckpointScoping ==
    (ret.op = "ReadFromCheckPoint" /\ ~ret.panic)
        => /\ ret.err = ReadAll(World).err
           /\ ret.entries = FromLastCheckpoint(ReadAll(World).entries)

C5_Witness ==
    /\ ret.op = "ReadFromCheckPoint" /\ ~ret.err
    /\ Len(ret.entries) = 2
    /\ Len(ReadAll(World).entries) = 3
    /\ GetIsCheckpoint(ret.entries[1]) /\ ~GetIsCheckpoint(ret.entries[2])

\* C6: when WriteWithCheckpoint returns nil, the checkpoint record is flushed
\* and fsynced: nothing is left in the buffer, the file is durable to its end
\* and ReadAll's last record is the checkpoint.
C6_CheckpointDurable ==
    (ret.op = "WriteWithCheckpoint" /\ ~ret.err)
        => /\ Synced
           /\ ~ReadAll(World).err
           /\ ReadAll(World).entries # <<>>
           /\ Last(ReadAll(World).entries).LogSeqNo = wal.lastSeqNo
           /\ GetIsCheckpoint(Last(ReadAll(World).entries))

\* The records stored in the segment file, as a scan from its beginning
\* decodes them.
DiskRecords == Records(readEntries(files[wal.fseg], 0, <<>>, FALSE).entries)

\* C7: when Close returns nil, every record accepted by a write of the engine
\* is in the segment file and durable, the file handle is released and the
\* engine is closed.
C7_CloseDurable ==
    (ret.op = "Close" /\ ~ret.err /\ FirstEngine /\ Unrotated)
        => /\ wal.file = Nil /\ wal.fclosed /\ wal.cancelled
           /\ wal.buf = <<>>
           /\ synced[wal.fseg] = Len(files[wal.fseg])
           /\ \A i \in 1..Len(accepted) :
                  \E j \in 1..Len(DiskRecords) : DiskRecords[j] = accepted[i]

C7_Witness ==
    /\ ret.op = "Close" /\ ~ret.err /\ FirstEngine /\ Unrotated
    /\ ret.changed
    /\ Len(accepted) = MaxSeqNo
    /\ Len(DiskRecords) = MaxSeqNo

Reads == {"ReadAll", "ReadFromCheckPoint"}

\* The frame a successful write call stores for an accepted record.
FrameOf(a) ==
    Frame([LogSeqNo |-> a.LogSeqNo, Data |-> a.Data,
           Checksum |-> WriteChecksum(a.Data, a.LogSeqNo),
           IsCheckpoint |-> IF a.IsCheckpoint THEN "true" ELSE Nil])

\* The frames of the accepted records i, i+1, ..., one after the other.
RECURSIVE StoredCells(_)
StoredCells(i) ==
    IF i > Len(accepted) THEN <<>> ELSE FrameOf(accepted[i]) \o StoredCells(i + 1)

\* The positions, in an unrotated segment, of the payload bytes of record i:
\* after the frames before it, its length prefix, its sequence number field
\* and the tag and length of its data field.
PayloadCells(i) ==
    LET start == Len(StoredCells(1)) - Len(StoredCells(i))
    IN {start + PrefixLen + 4 + k : k \in 1..Len(accepted[i].Data)}

\* A payload byte in the segment file is not the byte that was written.
PayloadAltered ==
    /\ Unrotated
    /\ Len(files[1]) = Len(StoredCells(1))
    /\ \E i \in 1..Len(accepted) : \E p \in PayloadCells(i) :
           files[1][p] # StoredCells(1)[p]

\* The segment file holds bytes after its last frame.
GarbageAppended == Unrotated /\ Len(files[1]) > Len(StoredCells(1))

\* C8: ReadAll and ReadFromCheckPoint never return a record whose stored
\* checksum differs from the one recomputed from (payload, sequence number);
\* a read that fails returns no records; and a read of a segment with a changed
\* payload bit or with garbage appended fails.
C8_ReadIntegrity ==
    (ret.op \in Reads /\ ~ret.panic)
        => /\ \A i \in 1..Len(ret.entries) :
                  ret.entries[i].Checksum
                      = WriteChecksum(ret.entries[i].Data, ret.entries[i].LogSeqNo)
           /\ ret.err => ret.entries = <<>>
           /\ (PayloadAltered \/ GarbageAppended) => ret.err

C8_Witness ==
    /\ ret.op \in Reads /\ ret.err /\ ret.entries = <<>>
    /\ PayloadAltered
    /\ Len(accepted) >= 2

\* C9: Sync with nothing buffered succeeds and leaves the files and the
\* sequence counter as they are, and a Sync right after a successful Sync
\* changes nothing at all.
C9_SyncIdempotent ==
    [][/\ (ret'.op = "Sync" /\ count' = count /\ wal.file # Nil /\ wal.buf = <<>>)
            => (~ret'.err /\ files' = files /\ wal' = wal)
       /\ (ret'.op = "Sync" /\ count' = count /\ ret.op = "Sync" /\ ~ret.err)
            => (~ret'.err /\ files' = files /\ synced' = synced /\ wal' = wal)]_vars

C9_Witness ==
    /\ ret.op = "Sync" /\ ~ret.err /\ ~ret.changed
    /\ wal.file # Nil /\ wal.buf = <<>>
    /\ accepted # <<>>

\* C10 as stated: a record accepted by Write stays in the write buffer, out of
\* the file and of ReadAll's result, until the next Sync, periodic sync,
\* checkpoint sync, rotation or Close.
C10_BufferedUntilFlush ==
    [][(ret'.op = "Write" /\ ~ret'.err /\ wal'.fseg = wal.fseg)
          => (files' = files /\ wal'.buf = wal.buf \o FrameOf(Last(accepted')))]_vars

\* C10, amended: a successful Write that rotates nothing appends its frame to
\* what the file and the buffer hold together, and leaves the file as it is
\* exactly when the frame fits the free space of the buffer; a frame that does
\* not fit makes the buffered writer flush by itself.  After the Write, in a
\* run without rotation, fault or crash, ReadAll fails or returns a prefix of
\* the accepted records.
C10_BufferedWhileRoom ==
    [][(ret'.op = "Write" /\ ~ret'.err /\ wal'.fseg = wal.fseg)
          => /\ files'[wal.fseg] \o wal'.buf
                    = files[wal.fseg] \o wal.buf \o FrameOf(Last(accepted'))
             /\ (Len(wal.buf) + Len(FrameOf(Last(accepted'))) <= BufSize)
                    => (files' = files /\ ReadAll(World') = ReadAll(World))
             /\ (Len(wal.buf) + Len(FrameOf(Last(accepted'))) > BufSize)
                    => files' # files
             /\ (count'.events = 0 /\ Unrotated')
                    => \/ ReadAll(World').err /\ ReadAll(World').entries = <<>>
                       \/ \E n \in 0..Len(accepted') :
                             Records(ReadAll(World').entries) = SubSeq(accepted', 1, n)]_vars

C10_Witness ==
    /\ ret.op = "Write" /\ ~ret.err
    /\ FirstEngine /\ Unrotated
    /\ Len(accepted) = 2
    /\ files[1] = <<>>
    /\ ReadAll(World).entries = <<>>

\* The records of the durable cells of segment m and of the segments after it.
RECURSIVE DurableRecords(_)
DurableRecords(m) ==
    IF m \notin DOMAIN files THEN <<>>
    ELSE Records(readEntries(Take(files[m], synced[m]), 0, <<>>, FALSE).entries)
             \o DurableRecords(m + 1)

\* The n-th accepted record is durable, and ReadAll returns it (ReadAll reads
\* the active segment, so this part is asked of a log that has not rotated).
Durable(n) ==
    /\ n <= Len(DurableRecords(1))
    /\ DurableRecords(1)[n] = accepted[n]
    /\ Unrotated => /\ ~ReadAll(World).err
                    /\ n <= Len(ReadAll(World).entries)
                    /\ Records(ReadAll(World).entries)[n] = accepted[n]

\* C11: while the engine is open and keepSyncing runs, every record a write
\* call accepted is eventually flushed and fsynced, and returned by ReadAll,
\* with no call of Sync or Close by the program.
C11_PeriodicSync ==
    \A n \in 1..MaxSeqNo :
        (Len(accepted) >= n /\ opened /\ bg = "running") ~> (~opened \/ Durable(n))

C11_Witness ==
    /\ ret.op = "ReadAll" /\ ~ret.err
    /\ FirstEngine /\ bg = "running"
    /\ Len(accepted) = 1 /\ ~accepted[1].IsCheckpoint
    /\ Records(ret.entries) = accepted
    /\ Durable(1)

\* C12: the keepSyncing goroutine is started by Open only when the
\* configuration enables sync; with sync disabled (the default) no goroutine
\* runs, and no periodic Sync is ever performed.
C12_SyncTaskOnlyWhenEnabled ==
    ~initConfig(userConfig).EnableSync => bg = "none"

\* The cells of segment m and of the segments after it, one after the other.
RECURSIVE SegmentCells(_)
SegmentCells(m) ==
    IF m \notin DOMAIN files THEN <<>> ELSE files[m] \o SegmentCells(m + 1)

\* The bytes a call in progress has appended so far: the length of its frame
\* once WriteSize has run.
RECURSIVE InProgress(_)
InProgress(t) ==
    IF t > NumWriters THEN <<>>
    ELSE (IF Call(t).pc = "sized" THEN LittleEndian(Len(Marshal(Call(t).entry)))
          ELSE <<>>) \o InProgress(t + 1)

\* C13: with several threads calling Write and WriteWithCheckpoint on one
\* engine, the calls that return are numbered 1, 2, 3, ... in the order in
\* which they return, a call in progress holds a number of its own, and the
\* segments and the buffer hold the frames of the returned calls whole and in
\* that order, followed by what the call in progress has appended.
C13_ConcurrentWrites ==
    /\ \A i \in 1..Len(accepted) : accepted[i].LogSeqNo = i
    /\ \A t \in Threads :
           Call(t).pc \in {"built", "sized"} => Call(t).entry.LogSeqNo = Len(accepted) + 1
    /\ SegmentCells(1) \o wal.buf = StoredCells(1) \o InProgress(1)

C13_Witness ==
    /\ Len(accepted) = MaxSeqNo - 1
    /\ \A t \in Threads : fg.returned[t] >= 1
    /\ \E t \in Threads : Call(t).pc = "sized"
    /\ DOMAIN files = {1, 2, 3}

\* C14: on an engine that Close has closed, none of Write,
\* WriteWithCheckpoint, Sync, ReadAll, ReadFromCheckPoint and Close panics.
C14_NoPanicAfterClose ==
    [][(wal.cancelled /\ wal.file = Nil
          /\ ret'.op \in {"Write", "WriteWithCheckpoint", "Sync", "ReadAll",
                          "ReadFromCheckPoint", "Close"})
          => ~ret'.panic]_vars

\* C15: on an engine that Close has closed, ReadAll and ReadFromCheckPoint
\* succeed and return what the segment file holds, as they would on the open
\* engine.
C15_ReadsAfterClose ==
    [][(wal.cancelled /\ wal.file = Nil /\ ret'.op \in Reads)
          => /\ ~ret'.err
             /\ ret'.op = "ReadAll" =>
                    ret'.entries = readEntries(files[wal.fseg], 0, <<>>, FALSE).entries
             /\ ret'.op = "ReadFromCheckPoint" =>
                    ret'.entries = readEntries(files[wal.fseg], 0, <<>>, TRUE).entries]_vars

\* A payload byte of a stored record that is not the last one of the only
\* segment was altered: the checksum of that frame no longer matches.
InteriorMismatch ==
    /\ DOMAIN files = {1}
    /\ Len(files[1]) = Len(StoredCells(1))
    /\ \E i \in 1..(Len(accepted) - 1) : \E p \in PayloadCells(i) :
           files[1][p] # StoredCells(1)[p]

Boundary(n) == Len(StoredCells(1)) - Len(StoredCells(n + 1))

\* The only segment holds the frames of the records 1..n whole and, after
\* them, a truncated frame: some but not all bytes of the frame of record n+1.
TornAfter(n) ==
    /\ DOMAIN files = {1}
    /\ n < Len(accepted)
    /\ Boundary(n) < Len(files[1])
    /\ Len(files[1]) < Boundary(n + 1)
    /\ files[1] = Take(StoredCells(1), Len(files[1]))

\* C17: Open on a segment that ends in a truncated frame succeeds, and the
\* engine's last sequence number is that of the last complete record.
C17_TornTailTolerated ==
    \A n \in 0..(MaxSeqNo - 1) :
        (ret.op = "Open" /\ TornAfter(n))
            => (~ret.err /\ opened /\ wal.lastSeqNo = n)

\* On the engine of the first Open, MaxSeqNo writes that each exceed the
\* maximum segment size but the first leave the segments 1, 2 and 3, and the
\* records are numbered 1, 2, 3 across them, one frame after the other.
RotatedTwice ==
    (FirstEngine /\ AllWritesSucceeded /\ count.events = 0
       /\ wal.maxLogFileSize < 2 * Len(FrameOf([LogSeqNo |-> 1, Data |-> <<1>>,
                                                IsCheckpoint |-> FALSE]))
       /\ Len(accepted) = 3)
        => /\ DOMAIN files = {1, 2, 3}
           /\ wal.currentSegmentNo = 3 /\ wal.fseg = 3
           /\ \A i \in 1..3 : accepted[i].LogSeqNo = i
           /\ SegmentCells(1) \o wal.buf = StoredCells(1)

\* The Open that follows a clean first run and Close on three segments
\* resumes in segment 3 with the number of the last record written.
ResumesInNewest ==
    (ret.op = "Open" /\ count.opens = 2 /\ CleanFirstRun /\ DOMAIN files = {1, 2, 3})
        => /\ ~ret.err /\ opened
           /\ wal.currentSegmentNo = 3 /\ wal.fseg = 3
           /\ wal.lastSeqNo = Len(accepted)

\* C18: with a small maximum segment size exceeded twice there are exactly the
\* segments 1, 2 and 3, the sequence numbers run on across them without gap
\* or reset, and a reopen resumes appending in segment 3 with the sequence
\* number after that of the last record.
C18_Rotation == RotatedTwice /\ ResumesInNewest

\* C19: ReadAll returns the entries of all the segments, in sequence order:
\* after writes that rotated the log and a Sync, every accepted record.
C19_ReadAllSegments ==
    (ret.op = "ReadAll" /\ FirstEngine /\ CleanFirstRun /\ Synced)
        => /\ ~ret.err
           /\ Records(ret.entries) = accepted

\* C20: the checksum the write path stores is accepted by both verifiers: an
\* entry the engine wrote and a read returned passes the check of
\* readAllEntries and the check UnmarshalAndValidateEntry makes for the
\* recovery scan of Open.
C20_ChecksumsAgree ==
    (ret.op \in Reads /\ ~ret.err)
        => \A i \in 1..Len(ret.entries) :
               /\ checksumMatches(ret.entries[i])
               /\ ~UnmarshalAndValidateEntry(Marshal(ret.entries[i]),
                                             Len(Marshal(ret.entries[i]))).err

\* C21: a call of Write or WriteWithCheckpoint that returns an error leaves
\* the last sequence number as it was before the call.
C21_FailedWriteKeepsSeqNo ==
    [][(ret'.op \in {"Write", "WriteWithCheckpoint"} /\ ret'.err)
          => wal'.lastSeqNo = wal.lastSeqNo]_vars

\* C22: the buffered writer, the file handle and the sequence counter are
\* touched only under wal.locker: no call of Sync or Close runs while a call
\* of Write or WriteWithCheckpoint is inside writeEntry.
C22_SingleLock ==
    ret.op \in {"Sync", "Close"} => fg.locker = 0

\* A step of the ticker case of keepSyncing: the goroutine runs before and
\* after it, and no public call is made.
PeriodicSync == bg = "running" /\ bg' = "running" /\ ret'.op = "none"

\* C23: once Close has cancelled the context the goroutine performs no Sync,
\* so none on a handle Close has released.
C23_NoSyncAfterCancel ==
    [][wal.cancelled => ~PeriodicSync]_vars

\* C24: the goroutine of keepSyncing has exited by the time Close returns.
C24_JoinedByClose ==
    ret.op = "Close" => bg # "running"

\* The highest segment number in the directory.
HighestSegment == CHOOSE n \in DOMAIN files : \A m \in DOMAIN files : m <= n

\* C26: an Open that succeeds has opened the segment with the highest number
\* in the directory, whatever their count, and made it the current segment;
\* on an empty directory that is the segment 1 it created.
C26_HighestSegment ==
    (ret.op = "Open" /\ ~ret.err)
        => /\ wal.fseg = HighestSegment
           /\ wal.currentSegmentNo = HighestSegment

\* Segment m is sealed: a segment with a higher number exists.
Sealed(m) == m \in DOMAIN files /\ \E k \in DOMAIN files : k > m

\* A write call of this step has rotated the log.
Rotates ==
    /\ ret'.op \in {"Write", "WriteWithCheckpoint"}
    /\ wal.fseg \in DOMAIN files
    /\ wal'.fseg # wal.fseg

\* C25: a write that rotates leaves in the old segment, flushed and fsynced,
\* everything that was buffered, makes the segment numbered one greater the
\* active one and puts its record there and nowhere else; and no step appends
\* to, truncates or deletes a sealed segment.
C25_RotationSeals ==
    [][/\ Rotates =>
            /\ files'[wal.fseg] = files[wal.fseg] \o wal.buf
            /\ synced'[wal.fseg] = Len(files'[wal.fseg])
            /\ wal'.fseg = wal.fseg + 1
            /\ ~ret'.err => files'[wal'.fseg] \o wal'.buf = FrameOf(Last(accepted'))
       /\ \A m \in DOMAIN files :
              Sealed(m) => (m \in DOMAIN files' /\ files'[m] = files[m])]_vars

\* C27: a read that finds only part of the last frame in the segment file
\* takes it for the end of the log: it returns without error, ReadAll with the
\* complete records before the partial frame.
C27_FrameInFlight ==
    \A n \in 0..(MaxSeqNo - 1) :
        (ret.op \in Reads /\ FirstEngine /\ TornAfter(n))
            => /\ ~ret.err
               /\ ret.op = "ReadAll" => Records(ret.entries) = SubSeq(accepted, 1, n)

\* C28: the entries a successful ReadAll returns have strictly increasing
\* sequence numbers; a segment whose frames repeat or go back in their
\* numbers is rejected.
C28_AscendingReads ==
    (ret.op = "ReadAll" /\ ~ret.err)
        => \A i \in 1..(Len(ret.entries) - 1) :
               ret.entries[i].LogSeqNo < ret.entries[i + 1].LogSeqNo

\* The records of the whole frames at the head of cells, up to the first
\* frame that is cut short or does not decode.
RECURSIVE CompleteRecords(_, _)
CompleteRecords(cells, pos) ==
    LET rem == Len(cells) - pos
        size == Uint32(SubSeq(cells, pos + 1, pos + PrefixLen))
        u == Unmarshal(SubSeq(cells, pos + PrefixLen + 1, pos + PrefixLen + size), size)
    IN IF rem < PrefixLen THEN <<>>
       ELSE IF rem - PrefixLen < size \/ size = 0 THEN <<>>
       ELSE IF u.err THEN <<>>
       ELSE Records(<<u.entry>>) \o CompleteRecords(cells, pos + PrefixLen + size)

\* C29: in every state of an open engine whose log has not rotated and has
\* lost nothing to a crash (the engine of the first Open, or any engine of a
\* run without fault or crash), the complete records in the segment file are
\* a prefix of the accepted records, in the same order and with consecutive
\* sequence numbers, and the accepted records not in the file are those the
\* write buffer still holds.
C29_DurablePrefix ==
    (opened /\ ~Shut /\ Unrotated /\ (count.events = 0 \/ count.opens = 1))
        => LET disk == CompleteRecords(files[1], 0)
           IN /\ Len(disk) <= Len(accepted)
              /\ disk = SubSeq(accepted, 1, Len(disk))
              /\ \A i \in 1..(Len(disk) - 1) : disk[i + 1].LogSeqNo = disk[i].LogSeqNo + 1
              /\ CompleteRecords(files[1] \o wal.buf, 0) = accepted


\* The records whose frames are whole within the fsynced part of the segment
\* files, from segment m on.
RECURSIVE SyncedRecords(_)
SyncedRecords(m) ==
    IF m \notin DOMAIN files THEN <<>>
    ELSE CompleteRecords(Take(files[m], synced[m]), 0) \o SyncedRecords(m + 1)

\* WriteWithCheckpoint has returned without error and no call has been made
\* since.
CheckpointReturned == ret.op = "WriteWithCheckpoint" /\ ~ret.err

\* C30: when WriteWithCheckpoint has returned without error, every byte
\* written before its own frame is in a segment file and fsynced: the sealed
\* segments whole, the active one up to the checkpoint's frame, which alone
\* may still be in the write buffer; and in the engine of the first Open, or
\* in any run without fault or crash, the records accepted before it are the
\* first durable records, in order.
C30_CheckpointBarrier ==
    CheckpointReturned =>
        /\ \A m \in DOMAIN files : m < wal.fseg => synced[m] = Len(files[m])
        /\ synced[wal.fseg]
             >= Len(files[wal.fseg]) + Len(wal.buf) - Len(FrameOf(Last(accepted)))
        /\ (count.events = 0 \/ count.opens = 1) =>
             LET durable == SyncedRecords(1)
                 before == SubSeq(accepted, 1, Len(accepted) - 1)
             IN /\ Len(before) <= Len(durable)
                /\ SubSeq(durable, 1, Len(before)) = before

C30_Witness ==
    /\ FirstEngine
    /\ count.events = 0
    /\ ret.op = "WriteWithCheckpoint"
    /\ ~ret.err
    /\ Len(accepted) = 3
    /\ ~accepted[1].IsCheckpoint
    /\ ~accepted[2].IsCheckpoint
    /\ wal.buf = FrameOf(accepted[3])
    /\ SyncedRecords(1) = SubSeq(accepted, 1, 2)


\* The only segment holds the frames of the records 1..n whole, then some but
\* not all bytes of the frame of record n+1, where an engine that had accepted
\* k records stopped, and after them the whole frames of the records a later
\* engine accepted.
TornThenAppended(n, k) ==
    /\ DOMAIN files = {1}
    /\ n < k
    /\ k < Len(accepted)
    /\ \E cut \in (Boundary(n) + 1)..(Boundary(n + 1) - 1) :
           files[1] = Take(StoredCells(1), cut) \o StoredCells(k + 1)

\* C31: when an engine opened on a segment that ends in a truncated frame has
\* written further records and they are flushed, ReadAll succeeds and returns
\* the records that preceded the truncated frame followed by the new records.
C31_AppendAfterTornTail ==
    \A n \in 0..(MaxSeqNo - 2) : \A k \in 1..(MaxSeqNo - 1) :
        (opened /\ ret.op = "ReadAll" /\ TornThenAppended(n, k))
            => /\ ~ret.err
               /\ Records(ret.entries)
                    = SubSeq(accepted, 1, n) \o SubSeq(accepted, k + 1, Len(accepted))


\* Thread t is in Write or WriteWithCheckpoint, at wal.locker.Lock().
Waits(t) == Call(t).pc = "lock"

\* C32: a thread outside writeEntry does not hold wal.locker, whichever way
\* its call returned; keepSyncing does not hold it at its select or after it
\* has returned; and a thread waiting in wal.locker.Lock() eventually holds
\* the lock.
C32_NoDeadlock ==
    /\ [](\A t \in Threads : Call(t).pc \in {"idle", "lock"} => fg.locker # t)
    /\ [](bg \in {"running", "locking", "exited", "none"} => fg.locker # Syncer)
    /\ \A t \in Threads : Waits(t) ~> (fg.locker = t)

C32_Witness ==
    /\ wal.cancelled
    /\ fg.locker = Syncer
    /\ Waits(1)
    /\ Waits(2)
    /\ fg.returned[1] > 0

====
